---- MODULE Spec2Model ----
(***************************************************************************)
(* One invocation of the compute_manager command line tool                 *)
(* (compute_manager.py): `create <instance_name>` or                       *)
(* `delete <instance_name>`.  The invocation loads the instance's          *)
(* config.yml, builds the provider client, submits one lifecycle request   *)
(* and polls the returned zone operation until its status is DONE.         *)
(*                                                                         *)
(* Everything the program does to the outside world (provider calls,       *)
(* sleeps, log lines, prints) is appended to `events`, in program order.   *)
(* The provider is the environment: the answers to the status queries are  *)
(* a script `stream` followed by an endless run of RUNNING; the answers to *)
(* the image lookup and to the insert/delete submission are chosen when    *)
(* the call is made.  A provider call that raises (HttpError) is the       *)
(* answer Raised.                                                          *)
(***************************************************************************)
EXTENDS Integers, Sequences, FiniteSets, TLC

VARIABLES argv, file, stream, pc, self, client, image, operation, result,
          error, clock, events

vars == <<argv, file, stream, pc, self, client, image, operation, result,
          error, clock, events>>

\* ---------------------------------------------------------------- bounds
\* Length of the scripted prefix of status answers.
MaxLen == 3

\* Status queries one invocation may issue in the model: two more than the
\* script, so that the endless RUNNING tail is polled as well.
MaxPolls == MaxLen + 2

\* ------------------------------------------------------------ input sets
Commands == {"create", "delete"}
InstanceNames == {"worker-1", "worker-2"}
Projects == {"proj-a"}
Zones == {"us-east1-b"}
MachineTypes == {"e2-medium", "n1-standard-1"}
ErrorPayloads == {"QUOTA_EXCEEDED", "RESOURCE_NOT_FOUND"}
SelfLinks == {"images/debian-12-v1", "images/debian-12-v2"}
OperationNames == {"operation-1", "operation-2"}

None == [none |-> TRUE]

\* A provider call that raised instead of returning.
Raised == [raised |-> "HttpError"]

\* ---------------------------------------------------- configuration file
RequiredKeys == {"instance_family", "instance_project", "machine_type"}

FullInfo(mt) ==
    [instance_family |-> "debian-12", instance_project |-> "debian-cloud",
     machine_type |-> mt]

Restrict(f, S) == [k \in S |-> f[k]]

\* configs/<instance_name>/config.yml: absent, not YAML, YAML that is not a
\* mapping (an empty file loads as None), or a mapping that has all three
\* keys or lacks one of them.
ConfigFiles ==
    {[kind |-> "missing"], [kind |-> "malformed"], [kind |-> "not_mapping"]}
    \cup {[kind |-> "mapping", info |-> FullInfo(mt)] : mt \in MachineTypes}
    \cup {[kind |-> "mapping",
           info |-> Restrict(FullInfo("e2-medium"), RequiredKeys \ {k})] :
              k \in RequiredKeys}

\* The exception ComputeResource.__init__ raises for a file, "none" if it
\* returns: open() fails first, then yaml.safe_load, then the key lookups.
ConfigError(f) ==
    IF f.kind = "missing" THEN "FileNotFoundError"
    ELSE IF f.kind = "malformed" THEN "YAMLError"
    ELSE IF f.kind = "not_mapping" THEN "TypeError"
    ELSE IF RequiredKeys \ DOMAIN f.info # {} THEN "KeyError"
    ELSE "none"

\* The attributes __init__ populates.
Descriptor(info, instance_name, project, zone) ==
    [instance_family |-> info.instance_family,
     instance_project |-> info.instance_project,
     machine_type |-> info.machine_type,
     instance_name |-> instance_name,
     project |-> project,
     zone |-> zone]

\* ------------------------------------------------------ provider answers
\* A zone operation resource: a status, and an error payload or none.
\* (A payload on a resource that is not DONE is included to show that the
\* loop looks at it only when the status is DONE.)
OperationResources ==
    {[status |-> s] : s \in {"PENDING", "RUNNING", "DONE"}}
    \cup {[status |-> "DONE", error |-> e] : e \in ErrorPayloads}
    \cup {[status |-> "RUNNING", error |-> "WARNING"]}

StatusAnswers == OperationResources \cup {Raised}

RECURSIVE SeqsUpTo(_, _)
SeqsUpTo(S, n) ==
    IF n = 0 THEN {<<>>}
    ELSE LET shorter == SeqsUpTo(S, n - 1)
         IN shorter \cup {Append(s, x) : s \in {t \in shorter : Len(t) = n - 1}, x \in S}

\* The answer to the i-th status query.
Answer(i) == IF i <= Len(stream) THEN stream[i] ELSE [status |-> "RUNNING"]

IsRaised(r) == "raised" \in DOMAIN r

\* ----------------------------------------------------------- event trace
Indices(c) == {i \in 1..Len(events) : events[i].call = c}
ProviderCalls == {"getFromFamily", "insert", "delete", "zoneOperations.get"}
Polls == Cardinality(Indices("zoneOperations.get"))

Init ==
    /\ argv \in [cmd : Commands, instance_name : InstanceNames,
                 project : Projects, zone : Zones]
    /\ file \in ConfigFiles
    /\ stream \in SeqsUpTo(StatusAnswers, MaxLen)
    /\ pc = "construct"
    /\ self = None
    /\ client = FALSE
    /\ image = None
    /\ operation = None
    /\ result = None
    /\ error = None
    /\ clock = 0
    /\ events = <<>>

\* ------------------------------------------------------------- requests
Emit(e) == events' = Append(events, e)
Emit2(e1, e2) == events' = events \o <<e1, e2>>

\* create()/delete(): log.info(f'Issuing ... command ...'); the message's
\* backquotes are written as quotes.
IssuingMessage(cmd, instance_name, project, zone) ==
    "Issuing " \o cmd \o " command for instance '" \o instance_name
      \o "' in zone " \o zone \o " and project " \o project \o "..."

\* create(): log.info('Instance created successfully!'); delete() likewise.
SuccessMessage(cmd) ==
    IF cmd = "create" THEN "Instance created successfully!"
    ELSE "Instance deleted successfully!"

SuccessMessages == {SuccessMessage(c) : c \in Commands}

\* ComputeResource.create: images().getFromFamily(project=, family=).
GetFromFamilyRequest(r) ==
    [project |-> r.instance_project, family |-> r.instance_family]

\* Mutant: the path is built from the image family instead of the machine type.
MachineTypeUrl_WrongAttr(r) == "zones/" \o r.zone \o "/machineTypes/" \o r.instance_family

\* ComputeResource.create: f'zones/{self.zone}/machineTypes/{self.machine_type}'.
MachineTypeUrl(r) == "zones/" \o r.zone \o "/machineTypes/" \o r.machine_type

\* ComputeResource.create: the instance resource sent as the insert body.
InsertConfig(r, source_disk_image) ==
    [name |-> r.instance_name,
     machineType |-> MachineTypeUrl(r),
     disks |-> <<[boot |-> TRUE, autoDelete |-> TRUE,
                  initializeParams |-> [sourceImage |-> source_disk_image]]>>,
     networkInterfaces |->
        <<[network |-> "global/networks/default",
           accessConfigs |-> <<[type |-> "ONE_TO_ONE_NAT", name |-> "External NAT"]>>]>>,
     serviceAccounts |->
        <<[email |-> "default",
           scopes |-> <<"https://www.googleapis.com/auth/devstorage.read_write",
                        "https://www.googleapis.com/auth/logging.write">>]>>]

\* ComputeResource.create: instances().insert(project=, zone=, body=).
InsertRequest(r, source_disk_image) ==
    [project |-> r.project, zone |-> r.zone,
     body |-> InsertConfig(r, source_disk_image)]

\* Mutant: the request names the image family instead of the instance.
DeleteRequest_WrongName(r) ==
    [project |-> r.project, zone |-> r.zone, instance |-> r.instance_family]

\* ComputeResource.delete: instances().delete(project=, zone=, instance=).
DeleteRequest(r) ==
    [project |-> r.project, zone |-> r.zone, instance |-> r.instance_name]

\* Mutant: project and zone are passed in each other's place.
GetOperationRequest_Swapped(project, zone, op) ==
    [project |-> zone, zone |-> project, operation |-> op]

\* wait_for_operation: zoneOperations().get(project=, zone=, operation=).
GetOperationRequest(project, zone, op) ==
    [project |-> project, zone |-> zone, operation |-> op]

\* Mutant: every status but PENDING ends the loop.
IsDone_NotPending(r) == r.status # "PENDING"

\* Mutant: the status is compared with the wrong spelling.
IsDone_LowerCase(r) == r.status = "done"

\* Mutant: RUNNING ends the loop as well.
IsDone_OrRunning(r) == r.status \in {"DONE", "RUNNING"}

\* wait_for_operation: result['status'] == 'DONE'.
IsDone(r) == r.status = "DONE"

\* Mutant: the payload is looked up under the wrong key.
HasError_WrongKey(r) == "errors" \in DOMAIN r

\* wait_for_operation: 'error' in result.
HasError(r) == "error" \in DOMAIN r

\* Mutant: the interval is one unit longer.
SleepSeconds_Two == 1 + 1

\* wait_for_operation: time.sleep(1).
SleepSeconds == 1

\* -------------------------------------------------------------- actions
\* Mutant: the provider client is built before the config is loaded.
ComputeResourceInit_ClientFirst ==
    /\ pc = "construct"
    /\ client' = TRUE
    /\ LET err == ConfigError(file) IN
        IF err = "none"
        THEN /\ self' = Descriptor(file.info, argv.instance_name, argv.project, argv.zone)
             /\ pc' = "init_client"
             /\ Emit([call |-> "build"])
             /\ UNCHANGED error
        ELSE /\ pc' = "failed"
             /\ error' = [type |-> err, from |-> "ComputeResource.__init__", args |-> ""]
             /\ Emit([call |-> "build"])
             /\ UNCHANGED self
    /\ UNCHANGED <<argv, file, stream, image, operation, result, clock>>

\* create()/delete(): compute_resource = ComputeResource(instance_name, project, zone).
ComputeResourceInit ==
    /\ pc = "construct"
    /\ LET err == ConfigError(file) IN
        IF err = "none"
        THEN /\ self' = Descriptor(file.info, argv.instance_name, argv.project, argv.zone)
             /\ pc' = "init_client"
             /\ UNCHANGED <<error, events>>
        ELSE /\ pc' = "failed"
             /\ error' = [type |-> err, from |-> "ComputeResource.__init__", args |-> ""]
             /\ IF err = "FileNotFoundError"
                THEN Emit([call |-> "log", level |-> "error",
                           msg |-> "Could not find config at path 'configs/"
                                     \o argv.instance_name \o "/config.yml'"])
                ELSE UNCHANGED events
             /\ UNCHANGED self
    /\ UNCHANGED <<argv, file, stream, client, image, operation, result, clock>>

\* create()/delete(): log.info('Issuing ...'); init_gcp_compute_client().
InitGcpComputeClient ==
    /\ pc = "init_client"
    /\ Emit2([call |-> "log", level |-> "info",
              msg |-> IssuingMessage(argv.cmd, argv.instance_name, argv.project, argv.zone)],
             [call |-> "build"])
    /\ client' = TRUE
    /\ pc' = IF argv.cmd = "create" THEN "get_image" ELSE "delete"
    /\ UNCHANGED <<argv, file, stream, self, image, operation, result, error, clock>>

\* Mutant: a failed image lookup is swallowed and create goes on.
CreateGetFromFamily_Swallow ==
    /\ pc = "get_image"
    /\ \E image_response \in {[selfLink |-> l] : l \in SelfLinks} \cup {Raised} :
        /\ Emit([call |-> "getFromFamily", request |-> GetFromFamilyRequest(self),
                 response |-> image_response])
        /\ pc' = "insert"
        /\ image' = IF IsRaised(image_response) THEN "" ELSE image_response.selfLink
        /\ UNCHANGED error
    /\ UNCHANGED <<argv, file, stream, self, client, operation, result, clock>>

\* ComputeResource.create, first call: the image lookup.
CreateGetFromFamily ==
    /\ pc = "get_image"
    /\ \E image_response \in {[selfLink |-> l] : l \in SelfLinks} \cup {Raised} :
        /\ Emit([call |-> "getFromFamily", request |-> GetFromFamilyRequest(self),
                 response |-> image_response])
        /\ IF IsRaised(image_response)
           THEN /\ pc' = "failed"
                /\ error' = [type |-> "HttpError", from |-> "getFromFamily", args |-> ""]
                /\ UNCHANGED image
           ELSE /\ pc' = "insert"
                /\ image' = image_response.selfLink
                /\ UNCHANGED error
    /\ UNCHANGED <<argv, file, stream, self, client, operation, result, clock>>

\* ComputeResource.create, second call: the insert; create() keeps
\* create_operation['name'].
CreateInsert ==
    /\ pc = "insert"
    /\ \E create_operation \in {[name |-> n] : n \in OperationNames} \cup {Raised} :
        /\ Emit([call |-> "insert", request |-> InsertRequest(self, image),
                 response |-> create_operation])
        /\ IF IsRaised(create_operation)
           THEN /\ pc' = "failed"
                /\ error' = [type |-> "HttpError", from |-> "insert", args |-> ""]
                /\ UNCHANGED operation
           ELSE /\ pc' = "poll"
                /\ operation' = create_operation.name
                /\ UNCHANGED error
    /\ UNCHANGED <<argv, file, stream, self, client, image, result, clock>>

\* ComputeResource.delete; delete() keeps delete_operation['name'].
DeleteInstance ==
    /\ pc = "delete"
    /\ \E delete_operation \in {[name |-> n] : n \in OperationNames} \cup {Raised} :
        /\ Emit([call |-> "delete", request |-> DeleteRequest(self),
                 response |-> delete_operation])
        /\ IF IsRaised(delete_operation)
           THEN /\ pc' = "failed"
                /\ error' = [type |-> "HttpError", from |-> "delete", args |-> ""]
                /\ UNCHANGED operation
           ELSE /\ pc' = "poll"
                /\ operation' = delete_operation.name
                /\ UNCHANGED error
    /\ UNCHANGED <<argv, file, stream, self, client, image, result, clock>>

\* wait_for_operation, one pass of the loop up to the sleep: the status
\* query, then the DONE test, the print and the error test.
WaitPoll ==
    /\ pc = "poll"
    /\ Polls < MaxPolls
    /\ LET r == Answer(Polls + 1)
           query == [call |-> "zoneOperations.get",
                     request |-> GetOperationRequest(argv.project, argv.zone, operation),
                     response |-> r, at |-> clock]
       IN
        IF IsRaised(r)
        THEN /\ Emit(query)
             /\ pc' = "failed"
             /\ error' = [type |-> "HttpError", from |-> "zoneOperations.get", args |-> ""]
             /\ UNCHANGED result
        ELSE IF IsDone(r)
        THEN /\ Emit2(query, [call |-> "print", msg |-> "done."])
             /\ IF HasError(r)
                THEN /\ pc' = "failed"
                     /\ error' = [type |-> "Exception", from |-> "wait_for_operation", args |-> r.error]
                     /\ UNCHANGED result
                ELSE /\ pc' = "log_success"
                     /\ result' = r
                     /\ UNCHANGED error
        ELSE /\ Emit(query)
             /\ pc' = "sleep"
             /\ UNCHANGED <<result, error>>
    /\ UNCHANGED <<argv, file, stream, self, client, image, operation, clock>>

\* wait_for_operation: time.sleep(1), then the loop starts over.
WaitSleep ==
    /\ pc = "sleep"
    /\ clock' = clock + SleepSeconds
    /\ Emit([call |-> "sleep", seconds |-> SleepSeconds])
    /\ pc' = "poll"
    /\ UNCHANGED <<argv, file, stream, self, client, image, operation, result, error>>

\* create()/delete(): the closing log.info after wait_for_operation returned.
LogSuccess ==
    /\ pc = "log_success"
    /\ Emit([call |-> "log", level |-> "info", msg |-> SuccessMessage(argv.cmd)])
    /\ pc' = "exit"
    /\ UNCHANGED <<argv, file, stream, self, client, image, operation, result, error, clock>>

Next ==
    \/ ComputeResourceInit
    \/ InitGcpComputeClient
    \/ CreateGetFromFamily
    \/ CreateInsert
    \/ DeleteInstance
    \/ WaitPoll
    \/ WaitSleep
    \/ LogSuccess

Spec == Init /\ [][Next]_vars

\* The invocation is one sequential process: it takes its next step
\* whenever it has one.
FairSpec == Spec /\ WF_vars(Next)

\* ===================================================== wait_for_operation
QueryIdx == Indices("zoneOperations.get")
LastQueryIdx == CHOOSE i \in QueryIdx : \A j \in QueryIdx : j <= i

\* wait_for_operation has returned a result / has raised / is over.
WaitReturned == result # None
WaitRaised == pc = "failed" /\ error.from \in {"zoneOperations.get", "wait_for_operation"}
WaitEnded == WaitReturned \/ WaitRaised

\* What a status answer says, read off the answer itself.
NonTerminal(r) == ~IsRaised(r) /\ r.status # "DONE"
ReportsDone(r) == ~IsRaised(r) /\ r.status = "DONE"

\* The script is k non-terminal statuses followed by a DONE.
LeadIn(k) ==
    /\ k < Len(stream)
    /\ \A i \in 1..k : NonTerminal(stream[i])
    /\ ReportsDone(stream[k + 1])

\* C1: whenever wait_for_operation has returned a result, at least one
\* status query was made, the most recent one reported DONE, and the result
\* is that query's answer, however many non-terminal statuses came first.
C1_ReturnsOnlyAfterDone ==
    WaitReturned =>
        /\ Polls >= 1
        /\ ReportsDone(events[LastQueryIdx].response)
        /\ result = events[LastQueryIdx].response
        /\ \A i \in QueryIdx \ {LastQueryIdx} : NonTerminal(events[i].response)

\* C1 witness: a result returned by the third query, after two non-terminal
\* statuses.
C1_Witness ==
    /\ WaitReturned
    /\ Polls = 3
    /\ NonTerminal(stream[1]) /\ NonTerminal(stream[2])

\* C2: for a script of k non-terminal statuses followed by DONE without an
\* error payload, the loop never issues more than k+1 status queries, never
\* raises, and the (k+1)-th query makes it return that query's answer as
\* success.
C2_StopsAtFirstDone ==
    \A k \in 0..Len(stream) :
        (LeadIn(k) /\ "error" \notin DOMAIN stream[k + 1]) =>
            /\ Polls <= k + 1
            /\ ~WaitRaised
            /\ WaitReturned <=> Polls = k + 1
            /\ WaitReturned => (result = stream[k + 1] /\ pc \in {"log_success", "exit"})

\* C2 witness: the script [RUNNING, RUNNING, DONE] finished with three polls.
C2_Witness ==
    /\ stream = <<[status |-> "RUNNING"], [status |-> "RUNNING"], [status |-> "DONE"]>>
    /\ pc = "exit"
    /\ Polls = 3

\* C3: for a script of k non-terminal statuses followed by DONE with error
\* payload E, the loop never returns a result and never issues more than
\* k+1 status queries, and the (k+1)-th query makes it raise an exception
\* whose argument is E itself.
C3_DoneWithErrorRaises ==
    \A k \in 0..Len(stream) :
        (LeadIn(k) /\ "error" \in DOMAIN stream[k + 1]) =>
            /\ Polls <= k + 1
            /\ ~WaitReturned
            /\ pc \notin {"log_success", "exit"}
            /\ Polls = k + 1 =>
                 /\ pc = "failed"
                 /\ error.type = "Exception"
                 /\ error.from = "wait_for_operation"
                 /\ error.args = stream[k + 1].error

\* C3 witness: the script [RUNNING, DONE(error=E)] failed after two polls.
C3_Witness ==
    /\ stream = <<[status |-> "RUNNING"], [status |-> "DONE", error |-> "QUOTA_EXCEEDED"]>>
    /\ pc = "failed"
    /\ error.args = "QUOTA_EXCEEDED"
    /\ Polls = 2

\* The invocation is inside wait_for_operation.
InWait == pc \in {"poll", "sleep"}

\* The most recent status query reported DONE / raised.
LastQueryDone == Polls >= 1 /\ ReportsDone(events[LastQueryIdx].response)
LastQueryRaised == Polls >= 1 /\ IsRaised(events[LastQueryIdx].response)

\* C4 as stated: wait_for_operation is over (returned or failed) only if
\* some status query reported DONE.
C4_EndsOnlyOnDone ==
    WaitEnded => \E i \in QueryIdx : ReportsDone(events[i].response)

\* C4 as amended: wait_for_operation is over exactly when its most recent
\* status query reported DONE or raised; no count of non-terminal answers
\* ends it: after a sleep it always polls again and on an endless run of
\* non-terminal statuses it is still polling at the model's cap; and when
\* the script holds a DONE it eventually is over.
C4_NoPollLimit ==
    /\ [](WaitEnded <=> (LastQueryDone \/ LastQueryRaised))
    /\ []((\A i \in 1..Len(stream) : NonTerminal(stream[i])) => ~WaitEnded)
    /\ [][pc = "sleep" => pc' = "poll"]_vars
    /\ (InWait /\ \E i \in 1..Len(stream) : ReportsDone(stream[i])) ~> WaitEnded
    /\ (InWait /\ \A i \in 1..Len(stream) : NonTerminal(stream[i]))
          ~> (Polls = MaxPolls /\ InWait)

\* C4 witness: the whole script and the endless tail after it were polled,
\* every answer was non-terminal, and the loop is about to poll again.
C4_Witness ==
    /\ pc = "sleep"
    /\ Len(stream) = MaxLen
    /\ Polls = MaxPolls
    /\ \A i \in QueryIdx : NonTerminal(events[i].response)

\* ============================================================ invocation
LookupIdx == Indices("getFromFamily")
InsertIdx == Indices("insert")
DeleteIdx == Indices("delete")
SubmitIdx == InsertIdx \cup DeleteIdx
ProviderIdx == {i \in 1..Len(events) : events[i].call \in ProviderCalls}
SuccessIdx == {i \in Indices("log") : events[i].msg \in SuccessMessages}

\* The config file cannot be loaded: absent, not YAML, not a mapping, or a
\* required key is not in it.
ConfigBroken ==
    \/ file.kind \in {"missing", "malformed", "not_mapping"}
    \/ /\ file.kind = "mapping"
       /\ \E k \in {"instance_family", "instance_project", "machine_type"} :
             k \notin DOMAIN file.info

\* C5: with a config file that cannot be loaded, create and delete alike
\* never build the provider client and never issue a provider call, and
\* the first step of the command ends the invocation with the loading error.
C5_ConfigFailureBeforeRemote ==
    ConfigBroken =>
        /\ client = FALSE
        /\ Indices("build") = {}
        /\ ProviderIdx = {}
        /\ SuccessIdx = {}
        /\ pc \in {"construct", "failed"}
        /\ pc = "failed" =>
              /\ error.from = "ComputeResource.__init__"
              /\ error.type \in {"FileNotFoundError", "YAMLError", "TypeError", "KeyError"}

\* C5 witness: a delete whose config file lacks a required key has failed.
C5_Witness ==
    /\ argv.cmd = "delete"
    /\ file.kind = "mapping"
    /\ "machine_type" \notin DOMAIN file.info
    /\ pc = "failed"
    /\ error.type = "KeyError"

\* C6: an invocation submits at most one insert or delete; every status
\* query comes after a submission that returned, asks for the operation
\* name that submission returned and uses the submission's project and
\* zone; an invocation that ran to its end made exactly one submission.
C6_OneOperationThenWait ==
    /\ Cardinality(SubmitIdx) <= 1
    /\ \A q \in QueryIdx :
          \E j \in SubmitIdx :
             /\ j < q
             /\ ~IsRaised(events[j].response)
             /\ events[q].request.operation = events[j].response.name
             /\ events[q].request.project = events[j].request.project
             /\ events[q].request.zone = events[j].request.zone
    /\ (InWait \/ WaitEnded) => Cardinality(SubmitIdx) = 1

\* C6 witness: a finished invocation that polled operation-2 three times.
C6_Witness ==
    /\ pc = "exit"
    /\ operation = "operation-2"
    /\ Polls = 3

\* A provider call that failed: it raised, or it is a status query that
\* reported DONE with an error payload.
FailedCall(e) ==
    /\ e.call \in ProviderCalls
    /\ \/ IsRaised(e.response)
       \/ /\ e.call = "zoneOperations.get"
          /\ e.response.status = "DONE"
          /\ "error" \in DOMAIN e.response

\* C7: a failed provider call is the last provider call of the invocation
\* and no completion message follows it; an invocation with an error is
\* in its final state and has emitted no completion message; a failed
\* image lookup is followed by no insert.
C7_ErrorsAreTerminal ==
    /\ \A i \in 1..Len(events) :
          FailedCall(events[i]) =>
             /\ \A j \in ProviderIdx : j <= i
             /\ \A j \in SuccessIdx : j < i
             /\ pc = "failed"
    /\ (error # None \/ pc = "failed") =>
          /\ pc = "failed"
          /\ error # None
          /\ SuccessIdx = {}
    /\ (\E i \in LookupIdx : IsRaised(events[i].response)) => InsertIdx = {}
    /\ SuccessIdx # {} => (pc = "exit" /\ WaitReturned)

\* C7 witness: a create whose image lookup raised.
C7_Witness ==
    /\ pc = "failed"
    /\ error.from = "getFromFamily"
    /\ LookupIdx # {}

\* C8: every insert belongs to a create, is the only insert, follows the
\* only image lookup, which was keyed by the config's image project and
\* image family, goes to the command's project and zone, and its body has
\* the instance name, one boot disk with auto-delete whose source image is
\* the reference the lookup returned, and the machine type path
\* zones/<zone>/machineTypes/<machine type>; a create whose lookup returned
\* goes on to submit the insert.
C8_CreateRequest ==
    /\ \A i \in InsertIdx :
          /\ argv.cmd = "create"
          /\ InsertIdx = {i}
          /\ \E j \in LookupIdx :
                /\ LookupIdx = {j}
                /\ j < i
                /\ events[j].request =
                      [project |-> file.info.instance_project,
                       family |-> file.info.instance_family]
                /\ ~IsRaised(events[j].response)
                /\ events[i].request.body.disks[1].initializeParams.sourceImage
                      = events[j].response.selfLink
          /\ events[i].request.project = argv.project
          /\ events[i].request.zone = argv.zone
          /\ events[i].request.body.name = argv.instance_name
          /\ Len(events[i].request.body.disks) = 1
          /\ events[i].request.body.disks[1].boot = TRUE
          /\ events[i].request.body.disks[1].autoDelete = TRUE
          /\ events[i].request.body.machineType
                = "zones/" \o argv.zone \o "/machineTypes/" \o file.info.machine_type
    /\ (argv.cmd = "create" /\ (InWait \/ WaitEnded)) => Cardinality(InsertIdx) = 1

\* C8 witness: an insert for worker-1 on the second machine type, booted
\* from the second image reference.
C8_Witness ==
    /\ argv.instance_name = "worker-1"
    /\ file.kind = "mapping"
    /\ InsertIdx # {}
    /\ \E i \in InsertIdx :
          /\ events[i].request.body.machineType = "zones/us-east1-b/machineTypes/n1-standard-1"
          /\ events[i].request.body.disks[1].initializeParams.sourceImage = "images/debian-12-v2"

\* C9: a delete invocation issues no image lookup and no insert, and at
\* most one delete request, which names the command's instance, project
\* and zone; once it waits it has issued exactly one.
C9_DeleteRequest ==
    argv.cmd = "delete" =>
        /\ LookupIdx = {}
        /\ InsertIdx = {}
        /\ Cardinality(DeleteIdx) <= 1
        /\ \A i \in DeleteIdx :
              events[i].request =
                 [project |-> argv.project, zone |-> argv.zone,
                  instance |-> argv.instance_name]
        /\ (InWait \/ WaitEnded) => Cardinality(DeleteIdx) = 1

\* C9 witness: a finished delete of worker-2.
C9_Witness ==
    /\ argv.cmd = "delete"
    /\ argv.instance_name = "worker-2"
    /\ pc = "exit"
    /\ DeleteIdx # {}

\* C10: every sleep lasts 1 and comes right after a status query that
\* reported a non-terminal status; every status query but the first comes
\* right after a sleep and 1 time unit after the query before it, and the
\* first comes at time 0; when wait_for_operation is over it has slept
\* once less than it has polled.
SleepIdx == Indices("sleep")
C10_FixedInterval ==
    /\ \A s \in SleepIdx :
          /\ events[s].seconds = 1
          /\ s - 1 \in QueryIdx
          /\ NonTerminal(events[s - 1].response)
    /\ \A q \in QueryIdx :
          IF \E p \in QueryIdx : p < q
          THEN /\ q - 1 \in SleepIdx
               /\ q - 2 \in QueryIdx
               /\ events[q].at = events[q - 2].at + 1
          ELSE /\ events[q].at = 0
               /\ \A s \in SleepIdx : s > q
    /\ Cardinality(SleepIdx) \in {Polls - 1, Polls}
    /\ (WaitEnded \/ pc = "sleep") => Cardinality(SleepIdx) = Polls - 1
    /\ (WaitEnded /\ (LastQueryDone \/ LastQueryRaised)) =>
          \A s \in SleepIdx : s < LastQueryIdx

\* C10 witness: a run of three status queries over, with two sleeps.
C10_Witness ==
    /\ WaitReturned
    /\ Polls = 3
    /\ Cardinality(SleepIdx) = 2
    /\ clock = 2
====
